---- MODULE Spec2Model ----
(***************************************************************************)
(* A model of the wallet facade of go-eth2-wallet (wallet.go): the option  *)
(* resolver, the three type switches (ImportWallet, CreateWallet,          *)
(* walletFromBytes), the synchronous operations CreateWallet, OpenWallet   *)
(* and ImportWallet, and the enumeration Wallets() with its producer       *)
(* goroutine, its buffered channel and a consumer ranging over it.         *)
(*                                                                         *)
(* The collaborators that wallet.go only calls (types.Store, ecodec, the   *)
(* nd and hd packages, encoding/json) are modelled by their contracts.     *)
(***************************************************************************)
EXTENDS Integers, Sequences, FiniteSets, TLC

(***************************************************************************)
(* Bounds of the model.                                                    *)
(***************************************************************************)
\* wallet names are 1..MaxNames
MaxNames == 2
\* longest list of Options passed to one call
MaxOpts == 2
\* CreateWallet/OpenWallet/ImportWallet calls in one behaviour
MaxCalls == 2
\* SpecBig: the store holds ChanCap + BigExtra entries
BigExtra == 2
\* SpecBig: the slow consumer reads only when at most Slack slots are free
Slack == 1

\* wallet.go:152  make(chan types.Wallet, 1024)
ChanCap == 1024

Names == 1..MaxNames

(***************************************************************************)
(* Process-wide defaults (package variables `store` and `encryptor`) and   *)
(* the values options can carry.                                           *)
(***************************************************************************)
store == "default"
encryptor == "defaultEnc"
StoreIds == {"default", "alt"}
NoPass == ""

AcceptedTags == {"nd", "non-deterministic", "hd", "hierarchical deterministic"}
Tags == AcceptedTags \cup {"bogus"}

(***************************************************************************)
(* Values.                                                                 *)
(***************************************************************************)
\* a nil types.Wallet
NoWallet == [id |-> 0, name |-> 0, type |-> "", store |-> "", encryptor |-> ""]

\* error values; Nil is the nil error
Nil == [kind |-> "nil", arg |-> ""]
Err(k, a) == [kind |-> k, arg |-> a]

\* bytes at rest: json says whether json.Unmarshal accepts them, body whether
\* the variant-specific remainder of the payload is usable by the variant
Malformed == [json |-> FALSE, uuid |-> 0, name |-> 0, type |-> "", body |-> FALSE]
Payload(u, n, t, b) == [json |-> TRUE, uuid |-> u, name |-> n, type |-> t, body |-> b]

\* what a store may hold under name n before the program runs
InitialPayloads(n) ==
    { Malformed,
      Payload(10 + n, n, "bogus", TRUE),
      Payload(10 + n, n, "nd", TRUE),
      Payload(10 + n, n, "hierarchical deterministic", TRUE),
      Payload(10 + n, n, "non-deterministic", FALSE) }

(***************************************************************************)
(* Option resolver: walletOptions and the four Option constructors.        *)
(***************************************************************************)
WithStore(s) == [kind |-> "store", val |-> s]
WithEncryptor(e) == [kind |-> "encryptor", val |-> e]
WithPassphrase(p) == [kind |-> "passphrase", val |-> p]
WithType(t) == [kind |-> "walletType", val |-> t]

\* the Option values callers pass in this model
OptionValues ==
    {WithStore("alt"), WithEncryptor("altEnc"), WithPassphrase("x")}
        \cup {WithType(t) : t \in Tags}

OptLists == UNION {[1..k -> OptionValues] : k \in 0..MaxOpts}

\* optionFunc.apply: each option sets exactly one field
apply(opt, o) ==
    CASE opt.kind = "store" -> [o EXCEPT !.store = opt.val]
      [] opt.kind = "encryptor" -> [o EXCEPT !.encryptor = opt.val]
      [] opt.kind = "passphrase" -> [o EXCEPT !.passphrase = opt.val]
      [] opt.kind = "walletType" -> [o EXCEPT !.walletType = opt.val]

\* for _, o := range opts { o.apply(&options) }
RECURSIVE ApplyOpts(_, _)
ApplyOpts(o, opts) ==
    IF opts = <<>> THEN o ELSE ApplyOpts(apply(Head(opts), o), Tail(opts))

\* the walletOptions OpenWallet starts from
OpenDefaults ==
    [store |-> store, encryptor |-> encryptor, walletType |-> "", passphrase |-> NoPass]

\* the walletOptions CreateWallet starts from
CreateDefaults ==
    [store |-> store, encryptor |-> encryptor, walletType |-> "nd", passphrase |-> NoPass]

(***************************************************************************)
(* The three type switches, one per call site.  Each yields the variant    *)
(* package it routes to, or "default" for the default branch.              *)
(***************************************************************************)
\* an Import switch that forgot the long spelling of hd
ImportSwitchShort(t) ==
    CASE t \in {"nd", "non-deterministic"} -> "nd"
      [] t \in {"hd"} -> "hd"
      [] OTHER -> "default"

ImportSwitch(t) ==
    CASE t \in {"nd", "non-deterministic"} -> "nd"
      [] t \in {"hd", "hierarchical deterministic"} -> "hd"
      [] OTHER -> "default"

\* a Create switch whose default branch falls back to nd
CreateSwitchLax(t) ==
    CASE t \in {"hd", "hierarchical deterministic"} -> "hd"
      [] OTHER -> "nd"

CreateSwitch(t) ==
    CASE t \in {"nd", "non-deterministic"} -> "nd"
      [] t \in {"hd", "hierarchical deterministic"} -> "hd"
      [] OTHER -> "default"

BytesSwitch(t) ==
    CASE t \in {"nd", "non-deterministic"} -> "nd"
      [] t \in {"hd", "hierarchical deterministic"} -> "hd"
      [] OTHER -> "default"

(***************************************************************************)
(* Collaborators, by contract.                                             *)
(* A store is a function from the names it holds to their bytes.           *)
(***************************************************************************)
\* types.Store.RetrieveWallet
RetrieveWallet(st, s, name) ==
    IF name \in DOMAIN st[s]
    THEN [data |-> st[s][name], err |-> Nil]
    ELSE [data |-> Malformed, err |-> Err("notfound", ToString(name))]

\* types.Store.RetrieveWallets: one entry per stored wallet, by ascending name
RetrieveWallets(st, s) ==
    LET held == DOMAIN st[s]
        top == IF held = {} THEN 0 ELSE CHOOSE n \in held : \A m \in held : m <= n
        keys == SelectSeq([n \in 1..top |-> n], LAMBDA n : n \in held)
    IN  [i \in 1..Len(keys) |-> st[s][keys[i]]]

\* what a variant writes for a wallet it persists
Serialize(w) == Payload(w.id, w.name, w.type, TRUE)

\* the store after the variant saved wallet w in store s
StoreWallet(st, s, w) ==
    [st EXCEPT ![s] = [n \in DOMAIN st[s] \cup {w.name} |->
                          IF n = w.name THEN Serialize(w) ELSE st[s][n]]]

\* nd.CreateWallet(name, store, encryptor), hd.CreateWallet(name, passphrase, ...)
VariantCreate(st, v, id, name, pass, s, e) ==
    IF name \in DOMAIN st[s]
    THEN [wallet |-> NoWallet, err |-> Err("exists", ToString(name)), stores |-> st]
    ELSE IF v = "hd" /\ pass = NoPass
    THEN [wallet |-> NoWallet, err |-> Err("passphrase", ""), stores |-> st]
    ELSE LET w == [id |-> id, name |-> name, type |-> v, store |-> s, encryptor |-> e]
         IN  [wallet |-> w, err |-> Nil, stores |-> StoreWallet(st, s, w)]

\* nd.DeserializeWallet / hd.DeserializeWallet (data, store, encryptor)
VariantDeserialize(v, data, s, e) ==
    IF data.body
    THEN [wallet |-> [id |-> data.uuid, name |-> data.name, type |-> v,
                      store |-> s, encryptor |-> e],
          err |-> Nil]
    ELSE [wallet |-> NoWallet, err |-> Err("variant", v)]

\* ecodec.Decrypt(encryptedData, passphrase)
Decrypt(blob, pass) ==
    IF pass = blob.key
    THEN [data |-> blob.plain, err |-> Nil]
    ELSE [data |-> blob.plain, err |-> Err("decrypt", "")]

\* nd.Import / hd.Import (encryptedData, passphrase, store, encryptor): the
\* variant decrypts the export itself and saves the wallet it rebuilds
VariantImport(st, v, blob, pass, s, e) ==
    LET d == Decrypt(blob, pass)
        w == [id |-> d.data.uuid, name |-> d.data.name, type |-> v,
              store |-> s, encryptor |-> e]
    IN  IF d.err # Nil
        THEN [wallet |-> NoWallet, err |-> d.err, stores |-> st]
        ELSE IF d.data.name \in DOMAIN st[s]
        THEN [wallet |-> NoWallet, err |-> Err("exists", ToString(d.data.name)), stores |-> st]
        ELSE [wallet |-> w, err |-> Nil, stores |-> StoreWallet(st, s, w)]

(***************************************************************************)
(* encoding/json as wallet.go uses it.                                     *)
(***************************************************************************)
\* json.Unmarshal(data, info) with info *walletInfo
UnmarshalInfo(data) ==
    IF data.json
    THEN [info |-> [ID |-> data.uuid, Name |-> data.name, Type |-> data.type], err |-> Nil]
    ELSE [info |-> [ID |-> 0, Name |-> 0, Type |-> ""], err |-> Err("json", "")]

\* json.Unmarshal(data, ext) with ext *walletExt: ext.Wallet stays nil when the
\* plaintext has no "wallet" member or a null one
UnmarshalExt(plain) ==
    IF ~plain.json
    THEN [isNil |-> TRUE, Wallet |-> [ID |-> 0, Name |-> 0, Type |-> ""], err |-> Err("json", "")]
    ELSE IF ~plain.hasWallet
    THEN [isNil |-> TRUE, Wallet |-> [ID |-> 0, Name |-> 0, Type |-> ""], err |-> Nil]
    ELSE [isNil |-> FALSE,
          Wallet |-> [ID |-> plain.uuid, Name |-> plain.name, Type |-> plain.type],
          err |-> Nil]

(***************************************************************************)
(* State.                                                                  *)
(***************************************************************************)
VARIABLES
    stores,     \* store id -> (name -> bytes)
    call,       \* the last CreateWallet/OpenWallet/ImportWallet call
    ret,        \* what that call returned, and the switch it went through
    created,    \* the last call that changed a store, when a successful CreateWallet
    ncalls,     \* calls made so far
    pc,         \* the producer goroutine of Wallets(): idle, range, send, close, done
    storeCh,    \* what store.RetrieveWallets() has still to yield
    yielded,    \* everything store.RetrieveWallets() yields in this enumeration
    data,       \* the loop variable of the producer
    ch,         \* the buffer of the channel Wallets() returned
    closed,     \* whether that channel is closed
    closes,     \* how many times close(ch) ran
    delivered,  \* the wallets the consumer received, in order
    consumer    \* the consumer: none, reading, done, abandoned

vars == <<stores, call, ret, created, ncalls, pc, storeCh, yielded, data, ch,
          closed, closes, delivered, consumer>>

callVars == <<call, ret, created, ncalls>>
enumVars == <<pc, storeCh, yielded, data, ch, closed, closes, delivered, consumer>>

NoPlain == [json |-> FALSE, hasWallet |-> FALSE, uuid |-> 0, name |-> 0, type |-> ""]
NoBlob == [key |-> "", plain |-> NoPlain]
NoCall == [op |-> "none", name |-> 0, opts |-> <<>>, blob |-> NoBlob, pass |-> ""]
NoRet == [wallet |-> NoWallet, err |-> Nil, panicked |-> FALSE,
          switched |-> FALSE, tag |-> "", variant |-> "", routine |-> ""]
NoCreated == [name |-> 0, opts |-> <<>>, wallet |-> NoWallet]

\* decrypted exports: not JSON, JSON without a wallet member, JSON with an envelope
Plains ==
    { NoPlain, [NoPlain EXCEPT !.json = TRUE] }
        \cup { [json |-> TRUE, hasWallet |-> TRUE, uuid |-> 20 + n, name |-> n, type |-> t] :
                 n \in Names, t \in Tags }
Blobs == {[key |-> "x", plain |-> p] : p \in Plains}
Passphrases == {"x", "y"}

\* the stores a behaviour may start from
InitialStores ==
    { [s \in StoreIds |-> IF s = store THEN f ELSE <<>>] :
        f \in UNION { [held -> UNION {InitialPayloads(n) : n \in held}] : held \in SUBSET Names } }

WellKeyed(f) == \A n \in DOMAIN f : f[n] \in InitialPayloads(n)

EnumIdle ==
    /\ pc = "idle"
    /\ storeCh = <<>>
    /\ yielded = <<>>
    /\ data = Malformed
    /\ ch = <<>>
    /\ closed = FALSE
    /\ closes = 0
    /\ delivered = <<>>
    /\ consumer = "none"

Init ==
    /\ stores \in {st \in InitialStores : WellKeyed(st[store])}
    /\ call = NoCall
    /\ ret = NoRet
    /\ created = NoCreated
    /\ ncalls = 0
    /\ EnumIdle

(***************************************************************************)
(* walletFromBytes: the shared deserialization path.  It uses the package  *)
(* variables store and encryptor.                                          *)
(***************************************************************************)
walletFromBytes(bytes) ==
    LET u == UnmarshalInfo(bytes)
        v == BytesSwitch(u.info.Type)
        r == VariantDeserialize(v, bytes, store, encryptor)
    IN  IF u.err # Nil
        THEN [NoRet EXCEPT !.err = u.err]
        ELSE IF v = "default"
        THEN [NoRet EXCEPT !.err = Err("unsupported", u.info.Type),
                            !.switched = TRUE, !.tag = u.info.Type]
        ELSE [wallet |-> r.wallet, err |-> r.err, panicked |-> FALSE,
              switched |-> TRUE, tag |-> u.info.Type, variant |-> v,
              routine |-> "DeserializeWallet"]

(***************************************************************************)
(* The synchronous operations.                                             *)
(***************************************************************************)
\* what OpenWallet(name, opts...) returns: options is built and not used
OpenResult(st, name, opts) ==
    LET options == ApplyOpts(OpenDefaults, opts)
        got == RetrieveWallet(st, store, name)
    IN  IF got.err # Nil
        THEN [NoRet EXCEPT !.err = got.err]
        ELSE walletFromBytes(got.data)

\* what CreateWallet(name, opts...) returns, and the stores it leaves
CreateResult(st, id, name, opts) ==
    LET options == ApplyOpts(CreateDefaults, opts)
        v == CreateSwitch(options.walletType)
        r == VariantCreate(st, v, id, name,
                           IF v = "hd" THEN options.passphrase ELSE NoPass,
                           options.store, options.encryptor)
    IN  IF v = "default"
        THEN [ret |-> [NoRet EXCEPT !.err = Err("unhandled", options.walletType),
                                    !.switched = TRUE, !.tag = options.walletType],
              stores |-> st]
        ELSE [ret |-> [wallet |-> r.wallet, err |-> r.err, panicked |-> FALSE,
                       switched |-> TRUE, tag |-> options.walletType, variant |-> v,
                       routine |-> "CreateWallet"],
              stores |-> r.stores]

\* an ImportWallet that drops the error of ecodec.Decrypt and goes on
ImportResultLateDecrypt(st, blob, pass) ==
    LET ext == UnmarshalExt(blob.plain)
        v == ImportSwitch(ext.Wallet.Type)
        r == VariantImport(st, v, blob, pass, store, encryptor)
    IN  IF ext.err # Nil
        THEN [ret |-> [NoRet EXCEPT !.err = ext.err], stores |-> st]
        ELSE IF ext.isNil
        THEN [ret |-> [NoRet EXCEPT !.panicked = TRUE], stores |-> st]
        ELSE IF v = "default"
        THEN [ret |-> [NoRet EXCEPT !.err = Err("unsupported", ext.Wallet.Type),
                                    !.switched = TRUE, !.tag = ext.Wallet.Type],
              stores |-> st]
        ELSE [ret |-> [wallet |-> r.wallet, err |-> r.err, panicked |-> FALSE,
                       switched |-> TRUE, tag |-> ext.Wallet.Type, variant |-> v,
                       routine |-> "Import"],
              stores |-> r.stores]

\* what ImportWallet(encryptedData, passphrase) returns, and the stores it leaves;
\* ext.Wallet.Type on a nil ext.Wallet is a nil pointer dereference: the call panics
ImportResult(st, blob, pass) ==
    LET d == Decrypt(blob, pass)
        ext == UnmarshalExt(d.data)
        v == ImportSwitch(ext.Wallet.Type)
        r == VariantImport(st, v, blob, pass, store, encryptor)
    IN  IF d.err # Nil
        THEN [ret |-> [NoRet EXCEPT !.err = d.err], stores |-> st]
        ELSE IF ext.err # Nil
        THEN [ret |-> [NoRet EXCEPT !.err = ext.err], stores |-> st]
        ELSE IF ext.isNil
        THEN [ret |-> [NoRet EXCEPT !.panicked = TRUE], stores |-> st]
        ELSE IF v = "default"
        THEN [ret |-> [NoRet EXCEPT !.err = Err("unsupported", ext.Wallet.Type),
                                    !.switched = TRUE, !.tag = ext.Wallet.Type],
              stores |-> st]
        ELSE [ret |-> [wallet |-> r.wallet, err |-> r.err, panicked |-> FALSE,
                       switched |-> TRUE, tag |-> ext.Wallet.Type, variant |-> v,
                       routine |-> "Import"],
              stores |-> r.stores]

\* a behaviour is a session of calls from an initial store, or one enumeration
\* of it: the two share only the store, which an enumeration never writes
CanCall == ncalls < MaxCalls /\ pc = "idle"

OpenWallet ==
    /\ CanCall
    /\ \E name \in Names, opts \in OptLists :
         /\ call' = [NoCall EXCEPT !.op = "open", !.name = name, !.opts = opts]
         /\ ret' = OpenResult(stores, name, opts)
    /\ ncalls' = ncalls + 1
    /\ UNCHANGED <<stores, created>>
    /\ UNCHANGED enumVars

CreateWallet ==
    /\ CanCall
    /\ \E name \in Names, opts \in OptLists :
         LET r == CreateResult(stores, 100 + ncalls, name, opts)
         IN  /\ call' = [NoCall EXCEPT !.op = "create", !.name = name, !.opts = opts]
             /\ ret' = r.ret
             /\ stores' = r.stores
             /\ created' = IF r.ret.err = Nil
                           THEN [name |-> name, opts |-> opts, wallet |-> r.ret.wallet]
                           ELSE created
    /\ ncalls' = ncalls + 1
    /\ UNCHANGED enumVars

ImportWallet ==
    /\ CanCall
    /\ \E blob \in Blobs, pass \in Passphrases :
         LET r == ImportResult(stores, blob, pass)
         IN  /\ call' = [NoCall EXCEPT !.op = "import", !.blob = blob, !.pass = pass]
             /\ ret' = r.ret
             /\ stores' = r.stores
             /\ created' = IF r.stores # stores THEN NoCreated ELSE created
    /\ ncalls' = ncalls + 1
    /\ UNCHANGED enumVars

(***************************************************************************)
(* Wallets(): the channel, the producer goroutine and a consumer.          *)
(***************************************************************************)
\* a channel that takes one wallet more than its capacity
CanSendLax(buf) == Len(buf) <= ChanCap

\* a send on the buffered channel goes through when the buffer has room
CanSend(buf) == Len(buf) < ChanCap

\* Wallets() makes the channel, starts the goroutine and returns the channel; the
\* goroutine ranges over store.RetrieveWallets() of the package's store
Wallets ==
    /\ pc = "idle"
    /\ ncalls = 0
    /\ storeCh' = RetrieveWallets(stores, store)
    /\ yielded' = RetrieveWallets(stores, store)
    /\ pc' = "range"
    /\ consumer' = "reading"
    /\ UNCHANGED <<stores, data, ch, closed, closes, delivered>>
    /\ UNCHANGED callVars

\* for data := range store.RetrieveWallets(): the next item, or the end of the loop
ProducerRange ==
    /\ pc = "range"
    /\ IF storeCh # <<>>
       THEN /\ data' = Head(storeCh)
            /\ storeCh' = Tail(storeCh)
            /\ pc' = "send"
       ELSE /\ pc' = "close"
            /\ UNCHANGED <<data, storeCh>>
    /\ UNCHANGED <<stores, yielded, ch, closed, closes, delivered, consumer>>
    /\ UNCHANGED callVars

\* a loop body that sends whatever walletFromBytes returned, errors included
ProducerSendUnchecked ==
    /\ pc = "send"
    /\ CanSend(ch)
    /\ ch' = Append(ch, walletFromBytes(data).wallet)
    /\ pc' = "range"
    /\ UNCHANGED <<stores, storeCh, yielded, data, closed, closes, delivered, consumer>>
    /\ UNCHANGED callVars

\* the loop body: wallet, err := walletFromBytes(data); if err == nil { ch <- wallet }
ProducerSend ==
    /\ pc = "send"
    /\ LET r == walletFromBytes(data)
       IN  IF r.err = Nil
           THEN /\ CanSend(ch)
                /\ ch' = Append(ch, r.wallet)
           ELSE ch' = ch
    /\ pc' = "range"
    /\ UNCHANGED <<stores, storeCh, yielded, data, closed, closes, delivered, consumer>>
    /\ UNCHANGED callVars

\* a goroutine that returns without closing the channel
ProducerExit ==
    /\ pc = "close"
    /\ pc' = "done"
    /\ UNCHANGED <<stores, storeCh, yielded, data, ch, closed, closes, delivered, consumer>>
    /\ UNCHANGED callVars

\* close(ch)
ProducerClose ==
    /\ pc = "close"
    /\ closed' = TRUE
    /\ closes' = closes + 1
    /\ pc' = "done"
    /\ UNCHANGED <<stores, storeCh, yielded, data, ch, delivered, consumer>>
    /\ UNCHANGED callVars

\* the consumer receives the wallet at the head of the buffer
ConsumerRecv ==
    /\ consumer = "reading"
    /\ ch # <<>>
    /\ delivered' = Append(delivered, Head(ch))
    /\ ch' = Tail(ch)
    /\ UNCHANGED <<stores, pc, storeCh, yielded, data, closed, closes, consumer>>
    /\ UNCHANGED callVars

\* the consumer's receive on the drained, closed channel ends its loop
ConsumerDone ==
    /\ consumer = "reading"
    /\ ch = <<>>
    /\ closed
    /\ consumer' = "done"
    /\ UNCHANGED <<stores, pc, storeCh, yielded, data, ch, closed, closes, delivered>>
    /\ UNCHANGED callVars

\* the consumer stops reading and drops the channel
ConsumerAbandon ==
    /\ consumer = "reading"
    /\ consumer' = "abandoned"
    /\ UNCHANGED <<stores, pc, storeCh, yielded, data, ch, closed, closes, delivered>>
    /\ UNCHANGED callVars

\* a slow consumer: it reads only once the buffer is within Slack of full, or
\* to drain the closed channel
SlowConsumerRecv ==
    /\ closed \/ Len(ch) + Slack >= ChanCap
    /\ ConsumerRecv

(***************************************************************************)
(* Specifications.                                                         *)
(***************************************************************************)
Next ==
    \/ CreateWallet
    \/ OpenWallet
    \/ ImportWallet
    \/ Wallets
    \/ ProducerRange
    \/ ProducerSend
    \/ ProducerClose
    \/ ConsumerRecv
    \/ ConsumerDone
    \/ ConsumerAbandon

Spec == Init /\ [][Next]_vars

\* the enumeration alone; the Go scheduler runs a runnable goroutine eventually
NextEnum ==
    \/ Wallets
    \/ ProducerRange
    \/ ProducerSend
    \/ ProducerClose
    \/ ConsumerRecv
    \/ ConsumerDone
    \/ ConsumerAbandon

SpecEnum == Init /\ [][NextEnum]_vars

\* a consumer that has not abandoned the channel keeps receiving
SpecFair ==
    /\ SpecEnum
    /\ WF_vars(ProducerRange)
    /\ WF_vars(ProducerSend)
    /\ WF_vars(ProducerClose)
    /\ WF_vars(ConsumerRecv)

\* stores that hold more entries than the channel buffers: ChanCap valid wallets
\* and then BigExtra entries, each a valid wallet or bytes that do not parse
BigHead == [n \in 1..ChanCap |-> Payload(10 + n, n, "nd", TRUE)]
BigTails == [1..BigExtra -> {TRUE, FALSE}]
BigStore(tail) ==
    BigHead \o [i \in 1..BigExtra |->
                   IF tail[i] THEN Payload(10 + ChanCap + i, ChanCap + i, "nd", TRUE)
                   ELSE Malformed]
BigStores(tail) == [s \in StoreIds |-> IF s = store THEN BigStore(tail) ELSE <<>>]

\* the wallets the producer makes of the first ChanCap entries
BigWallets == [i \in 1..ChanCap |-> walletFromBytes(BigHead[i]).wallet]

\* the enumeration of BigStores(tail) after Wallets() and k rounds of the
\* producer's loop with the consumer not yet reading: the state k times
\* ProducerRange and ProducerSend lead to
Filled(tail, k) ==
    /\ pc = "range"
    /\ storeCh = SubSeq(BigStore(tail), k + 1, ChanCap + BigExtra)
    /\ yielded = BigStore(tail)
    /\ data = IF k = 0 THEN Malformed ELSE BigHead[k]
    /\ ch = SubSeq(BigWallets, 1, k)
    /\ closed = FALSE
    /\ closes = 0
    /\ delivered = <<>>
    /\ consumer = "reading"

\* SpecBig starts before Wallets() or anywhere on the producer's way to a full
\* buffer; each of these states is reached from the first by the actions below
InitBig ==
    \E tail \in BigTails :
        /\ stores = BigStores(tail)
        /\ call = NoCall
        /\ ret = NoRet
        /\ created = NoCreated
        /\ ncalls = 0
        /\ EnumIdle \/ \E k \in 0..ChanCap : Filled(tail, k)

NextBig ==
    \/ Wallets
    \/ ProducerRange
    \/ ProducerSend
    \/ ProducerClose
    \/ SlowConsumerRecv
    \/ ConsumerDone
    \/ ConsumerAbandon

SpecBig == InitBig /\ [][NextBig]_vars

(***************************************************************************)
(* Properties.                                                             *)
(***************************************************************************)
Ids(ws) == [i \in 1..Len(ws) |-> ws[i].id]

\* an entry that deserializes: parseable, a registered tag, a usable body
ValidEntry(d) == d.json /\ d.type \in AcceptedTags /\ d.body

ValidIds(entries) ==
    LET v == SelectSeq(entries, ValidEntry)
    IN  [i \in 1..Len(v) |-> v[i].uuid]

IsPrefix(a, b) == Len(a) <= Len(b) /\ SubSeq(b, 1, Len(a)) = a

\* the variant the tag table of the design assigns to a spelling ("" for none)
TableVariant(t) ==
    IF t \in {"nd", "non-deterministic"} THEN "nd"
    ELSE IF t \in {"hd", "hierarchical deterministic"} THEN "hd"
    ELSE ""

\* C1: what the consumer has received is always a prefix of the valid wallets of
\* the store's sequence, in the store's order, with no placeholder among them;
\* a consumer that read until the close has received exactly the valid ones.
C1_EnumerateExactlyValid ==
    /\ IsPrefix(Ids(delivered), ValidIds(yielded))
    /\ \A i \in 1..Len(delivered) : delivered[i] # NoWallet
    /\ consumer = "done" => Ids(delivered) = ValidIds(yielded)

\* C1 witness: an enumeration read to its close that skipped a bad entry and
\* delivered valid ones around it
C1_Witness ==
    /\ consumer = "done"
    /\ Len(delivered) >= 1
    /\ Len(delivered) < Len(yielded)

\* C2: no state has the consumer gone and the producer blocked on its send.
C2_ProducerNeverStuck ==
    ~ ( /\ consumer = "abandoned"
        /\ pc = "send"
        /\ walletFromBytes(data).err = Nil
        /\ Len(ch) = ChanCap )

\* C3: OpenWallet looks the name up in the store its options resolve to: absent
\* there it fails with not-found, present there with a valid payload it succeeds.
C3_OpenUsesEffectiveStore ==
    call.op = "open" =>
        LET eff == ApplyOpts(OpenDefaults, call.opts).store
        IN  /\ call.name \notin DOMAIN stores[eff] => ret.err.kind = "notfound"
            /\ (call.name \in DOMAIN stores[eff] /\ ValidEntry(stores[eff][call.name]))
                   => (ret.err = Nil /\ ret.wallet.id = stores[eff][call.name].uuid)

\* C4: an OpenWallet after a successful CreateWallet of the same name with the
\* same options returns a wallet with the id, name and type Create returned.
C4_CreateThenOpen ==
    ( /\ call.op = "open"
      /\ created.wallet # NoWallet
      /\ created.name = call.name
      /\ created.opts = call.opts )
        => /\ ret.err = Nil
           /\ ret.wallet.id = created.wallet.id
           /\ ret.wallet.name = created.wallet.name
           /\ ret.wallet.type = created.wallet.type

\* C5: whichever operation switched on a tag, it routed to the variant the tag
\* table names for that spelling, and rejected the tag when the table has none.
C5_SameTableEverywhere ==
    (call.op \in {"create", "open", "import"} /\ ret.switched) =>
        /\ ret.variant = TableVariant(ret.tag)
        /\ TableVariant(ret.tag) = "" => (ret.err # Nil /\ ret.routine = "")
        /\ TableVariant(ret.tag) # "" =>
               ret.routine = (CASE call.op = "create" -> "CreateWallet"
                                [] call.op = "open" -> "DeserializeWallet"
                                [] call.op = "import" -> "Import")

\* C5 witness: ImportWallet routed the long spelling of hd to hd.Import
C5_Witness ==
    /\ call.op = "import"
    /\ ret.tag = "hierarchical deterministic"
    /\ ret.variant = "hd"
    /\ ret.routine = "Import"

\* C6: an ImportWallet whose passphrase does not decrypt the blob returns the
\* decryption error and no wallet, calls no variant routine and leaves the
\* stores as they were.
C6_ImportWrongPassphrase ==
    [][ ( /\ ncalls' = ncalls + 1
          /\ call'.op = "import"
          /\ call'.pass # call'.blob.key )
            => /\ ret'.err = Err("decrypt", "")
               /\ ret'.wallet = NoWallet
               /\ ret'.routine = ""
               /\ ~ret'.panicked
               /\ stores' = stores ]_vars

\* C6 witness: an import of a well-formed nd export under the wrong passphrase
C6_Witness ==
    /\ call.op = "import"
    /\ call.pass # call.blob.key
    /\ call.blob.plain.hasWallet
    /\ call.blob.plain.type = "nd"
    /\ ret.err.kind = "decrypt"

\* C7: a call that switches on a tag outside the four spellings returns an error
\* carrying the tag and no wallet, calls no variant routine and leaves the stores
\* as they were; the producer of Wallets() sends nothing for such an entry and
\* goes on with the next.
C7_UnsupportedTag ==
    [][ /\ ( /\ ncalls' = ncalls + 1
             /\ ret'.switched
             /\ ret'.tag \notin AcceptedTags )
               => /\ ret'.err.kind \in {"unsupported", "unhandled"}
                  /\ ret'.err.arg = ret'.tag
                  /\ ret'.wallet = NoWallet
                  /\ ret'.routine = ""
                  /\ ~ret'.panicked
                  /\ stores' = stores
        /\ ( /\ pc = "send"
             /\ pc' # "send"
             /\ data.json
             /\ data.type \notin AcceptedTags )
               => /\ ch' = ch
                  /\ delivered' = delivered
                  /\ pc' = "range" ]_vars

\* C7 witness: CreateWallet asked for an unknown type
C7_Witness ==
    /\ call.op = "create"
    /\ ret.err = Err("unhandled", "bogus")
    /\ ret.wallet = NoWallet

\* C8: a started enumeration whose consumer keeps reading gets its channel
\* closed; the channel is closed once, nothing enters it after the close, and a
\* consumer that saw the close receives nothing more.
C8_SequenceCloses ==
    /\ (pc # "idle") ~> (closed \/ consumer = "abandoned")
    /\ [][ /\ closes' <= 1
           /\ closed => (closed' /\ Len(ch') <= Len(ch))
           /\ consumer = "done" => delivered' = delivered ]_vars

\* C8 witness: the channel is closed with the store's sequence exhausted and the
\* consumer through with it
C8_Witness ==
    /\ closed
    /\ closes = 1
    /\ storeCh = <<>>
    /\ consumer = "done"
    /\ Len(delivered) = MaxNames

\* C9: an ImportWallet whose blob decrypts to something that is not an object
\* with a wallet member returns a parse error, no wallet, does not panic and
\* calls no variant routine.
C9_ImportMalformedReturnsError ==
    ( /\ call.op = "import"
      /\ call.pass = call.blob.key
      /\ ~(call.blob.plain.json /\ call.blob.plain.hasWallet) )
        => /\ ~ret.panicked
           /\ ret.err.kind = "json"
           /\ ret.wallet = NoWallet
           /\ ret.routine = ""

\* the producer holds a wallet and waits for room in the full buffer
Blocked ==
    /\ pc = "send"
    /\ walletFromBytes(data).err = Nil
    /\ Len(ch) = ChanCap

\* C10 as stated: the buffer never holds more than ChanCap wallets, and while it
\* is full no step takes a further item from the store's sequence.
C10_FullBufferStopsProducer ==
    [][ /\ Len(ch') <= ChanCap
        /\ Len(ch) = ChanCap => storeCh' = storeCh ]_vars

\* C10 amended: the buffer never holds more than ChanCap wallets; with the buffer
\* full the producer still takes items from the store's sequence, one per round
\* of its loop, until one of them makes a wallet; blocked on the send of that
\* wallet it neither moves nor takes an item, and only a receive by the consumer
\* makes room.
C10_Backpressure ==
    [][ /\ Len(ch') <= ChanCap
        /\ (Len(ch) = ChanCap /\ storeCh' # storeCh)
               => (pc = "range" /\ pc' = "send" /\ Len(storeCh') = Len(storeCh) - 1)
        /\ Blocked => (storeCh' = storeCh /\ pc' = pc /\ data' = data)
        /\ (Blocked /\ Len(ch') < ChanCap) => delivered' # delivered ]_vars

\* C10 witness: the producer blocked on the full buffer with a wallet in hand,
\* after it took and skipped an entry with the buffer already full
C10_Witness ==
    /\ Blocked
    /\ consumer = "reading"
    /\ delivered = <<>>
    /\ yielded[ChanCap + 1] = Malformed

====
